---- MODULE Spec2Model ----
(***************************************************************************)
(* The nitme analyzer (src/nitme.go): run() asks the Inspector for every   *)
(* *ast.AssignStmt of a parsed file, in document order, and the callback   *)
(* reports "incorrect empty slice declaration" with a "use var" fix for    *)
(* each assignment whose first value is a composite literal with nil Elts  *)
(* and an *ast.ArrayType type.                                             *)
(*                                                                         *)
(* Source text is a sequence of tokens; one token is one unit of           *)
(* token.Pos.  Statements end with the token ";" (Go's automatic           *)
(* semicolon at a line end).  The parser below covers the statements and   *)
(* expressions that occur in StmtTexts.                                    *)
(***************************************************************************)
EXTENDS Naturals, Sequences, FiniteSets, TLC

\* Longest analysed function body, in statements.
MaxStmts == 2
\* How many times the driver runs the analyzer (nitme <file>, nitme -fix <file>).
MaxPasses == 2

VARIABLES
    src,        \* the source text of the analysed file (tokens)
    nodes,      \* the statements of src, parsed, in document order
    idx,        \* Preorder's position in nodes
    diags,      \* what pass.Report received during the current pass
    pc,         \* "traverse" (inside ins.Preorder), "done" (run returned), "panicked"
    pass,       \* number of the current run of the analyzer
    log,        \* history: one entry per invocation of the callback
    fixedIdx    \* history: the statements rewritten by the last ApplyFixes

vars == <<src, nodes, idx, diags, pc, pass, log, fixedIdx>>

----------------------------------------------------------------------------
(* Tokens *)

AssignToks == {":=", "=", "+="}
Numbers == {"0", "3"}
Keywords == {"var", "map"}
Punct == {"[", "]", "{", "}", "(", ")", ",", ".", "*", ";", "EOF"}

IsIdentTok(t) == t \notin (AssignToks \cup Numbers \cup Keywords \cup Punct)

\* The statements a function body is made of.
StmtTexts ==
    { <<"var", "x", "[", "]", "int">>,                       \* var correct []int
      <<"x", ":=", "[", "]", "int", "{", "0", "}">>,         \* nonEmpty := []int{0}
      <<"x", ":=", "[", "]", "int", "{", "}">>,              \* incorrect := []int{}
      <<"y", ":=", "[", "]", "T", "{", "}">>,
      <<"_", ",", "_", "=", "x", ",", "y">>,                 \* _, _ = correct, incorrect
      <<"x", "=", "[", "]", "int", "{", "}">>,
      <<"x", "+=", "[", "]", "int", "{", "}">>,
      <<"m", ":=", "map", "[", "T", "]", "int", "{", "}">>,
      <<"x", ":=", "T", "{", "}">>,
      <<"x", ":=", "[", "3", "]", "int", "{", "}">>,
      <<"a", ",", "b", ":=", "[", "]", "int", "{", "}", ",", "[", "]", "int", "{", "}">>,
      <<"a", ",", "b", ":=", "f", "(", ")">>,
      <<"s", ".", "f", "=", "[", "]", "int", "{", "}">>,
      <<"x", ":=", "[", "]", "*", "T", "{", "}">>,
      <<"x", ":=", "[", "]", "[", "]", "int", "{", "}">>,
      <<"s", ".", "f", "=", "[", "]", "*", "T", "{", "0", "}">>,
      <<"s", ".", "f", "=", "map", "[", "T", "]", "*", "T", "{", "}">>,
      <<"s", ".", "f", "=", "f", "(", ")">> }

RECURSIVE JoinStmts(_)
JoinStmts(ss) ==
    IF ss = <<>> THEN <<>> ELSE Head(ss) \o <<";">> \o JoinStmts(Tail(ss))

Files ==
    { JoinStmts(ss) : ss \in UNION { [1..k -> StmtTexts] : k \in 1..MaxStmts } }

----------------------------------------------------------------------------
(* go/ast nodes.  Every node is a record with a kind; Nil is the nil       *)
(* interface value.  A Go slice is nil or a list.                          *)

Nil == [kind |-> "nil"]
NilSlice == [isNil |-> TRUE, list |-> <<>>]
Slice(l) == [isNil |-> FALSE, list |-> l]

Ident(name) == [kind |-> "Ident", Name |-> name]
BasicLit(v) == [kind |-> "BasicLit", Value |-> v]
BadExpr == [kind |-> "BadExpr"]
StarExpr(x) == [kind |-> "StarExpr", X |-> x]
SelectorExpr(x, sel) == [kind |-> "SelectorExpr", X |-> x, Sel |-> sel]
CallExpr(fun) == [kind |-> "CallExpr", Fun |-> fun]
ArrayType(len, elt) == [kind |-> "ArrayType", Len |-> len, Elt |-> elt]
MapType(key, value) == [kind |-> "MapType", Key |-> key, Value |-> value]
CompositeLit(type, elts) == [kind |-> "CompositeLit", Type |-> type, Elts |-> elts]

AssignStmt(lhs, tk, rhs, pos, end) ==
    [kind |-> "AssignStmt", Lhs |-> lhs, Tok |-> tk, Rhs |-> rhs, Pos |-> pos, End |-> end]
DeclStmt(name, type, pos, end) ==
    [kind |-> "DeclStmt", Name |-> name, Type |-> type, Pos |-> pos, End |-> end]
ExprStmt(x, pos, end) == [kind |-> "ExprStmt", X |-> x, Pos |-> pos, End |-> end]
BadStmt(pos, end) == [kind |-> "BadStmt", Pos |-> pos, End |-> end]

----------------------------------------------------------------------------
(* The parser: tokens to nodes.  Each parse operator returns the node (or  *)
(* list) it read and the tokens left.                                      *)

tok(ts) == IF ts = <<>> THEN "EOF" ELSE Head(ts)
next(ts) == IF ts = <<>> THEN <<>> ELSE Tail(ts)

RECURSIVE parseType(_)
RECURSIVE parseExpr(_)
RECURSIVE parseExprList(_)

\* "{" "}" gives nil Elts; "{" list "}" gives the list.
parseLiteralValue(type, ts) ==
    LET r == next(ts) IN
    IF tok(r) = "}"
    THEN [node |-> CompositeLit(type, NilSlice), rest |-> next(r)]
    ELSE LET l == parseExprList(r) IN
         IF tok(l.rest) = "}"
         THEN [node |-> CompositeLit(type, Slice(l.list)), rest |-> next(l.rest)]
         ELSE [node |-> BadExpr, rest |-> l.rest]

parseType(ts) ==
    CASE tok(ts) = "[" ->
            IF tok(next(ts)) = "]"
            THEN LET e == parseType(next(next(ts))) IN
                 [node |-> ArrayType(Nil, e.node), rest |-> e.rest]
            ELSE LET len == parseExpr(next(ts))
                     e == parseType(next(len.rest))
                 IN IF tok(len.rest) = "]"
                    THEN [node |-> ArrayType(len.node, e.node), rest |-> e.rest]
                    ELSE [node |-> BadExpr, rest |-> len.rest]
      [] tok(ts) = "map" ->
            LET key == parseType(next(next(ts)))
                value == parseType(next(key.rest))
            IN IF tok(next(ts)) = "[" /\ tok(key.rest) = "]"
               THEN [node |-> MapType(key.node, value.node), rest |-> value.rest]
               ELSE [node |-> BadExpr, rest |-> next(ts)]
      [] tok(ts) = "*" ->
            LET x == parseType(next(ts)) IN
            [node |-> StarExpr(x.node), rest |-> x.rest]
      [] IsIdentTok(tok(ts)) ->
            [node |-> Ident(tok(ts)), rest |-> next(ts)]
      [] OTHER -> [node |-> BadExpr, rest |-> next(ts)]

parseExpr(ts) ==
    CASE tok(ts) \in {"[", "map"} ->
            LET t == parseType(ts) IN
            IF tok(t.rest) = "{" THEN parseLiteralValue(t.node, t.rest) ELSE t
      [] tok(ts) \in Numbers ->
            [node |-> BasicLit(tok(ts)), rest |-> next(ts)]
      [] IsIdentTok(tok(ts)) ->
            LET x == Ident(tok(ts))
                r == next(ts)
            IN CASE tok(r) = "." /\ IsIdentTok(tok(next(r))) ->
                      [node |-> SelectorExpr(x, Ident(tok(next(r)))), rest |-> next(next(r))]
                 [] tok(r) = "(" /\ tok(next(r)) = ")" ->
                      [node |-> CallExpr(x), rest |-> next(next(r))]
                 [] tok(r) = "{" -> parseLiteralValue(x, r)
                 [] OTHER -> [node |-> x, rest |-> r]
      [] OTHER -> [node |-> BadExpr, rest |-> next(ts)]

parseExprList(ts) ==
    LET e == parseExpr(ts) IN
    IF tok(e.rest) = ","
    THEN LET m == parseExprList(next(e.rest)) IN
         [list |-> <<e.node>> \o m.list, rest |-> m.rest]
    ELSE [list |-> <<e.node>>, rest |-> e.rest]

\* One statement from its tokens ts, which start at position pos.
parseStmt(ts, pos) ==
    LET end == pos + Len(ts) IN
    IF tok(ts) = "var"
    THEN LET t == parseType(next(next(ts))) IN
         IF IsIdentTok(tok(next(ts))) /\ t.node.kind # "BadExpr" /\ t.rest = <<>>
         THEN DeclStmt(Ident(tok(next(ts))), t.node, pos, end)
         ELSE BadStmt(pos, end)
    ELSE LET l == parseExprList(ts) IN
         IF tok(l.rest) \in AssignToks
         THEN LET r == parseExprList(next(l.rest)) IN
              IF r.rest = <<>>
              THEN AssignStmt(l.list, tok(l.rest), r.list, pos, end)
              ELSE BadStmt(pos, end)
         ELSE IF l.rest = <<>> /\ Len(l.list) = 1
              THEN ExprStmt(l.list[1], pos, end)
              ELSE BadStmt(pos, end)

\* Number of tokens of ts before its first ";".
RECURSIVE stmtLen(_)
stmtLen(ts) == IF ts = <<>> \/ Head(ts) = ";" THEN 0 ELSE 1 + stmtLen(Tail(ts))

RECURSIVE parseStmtList(_, _)
parseStmtList(ts, pos) ==
    IF ts = <<>> THEN <<>>
    ELSE LET n == stmtLen(ts) IN
         <<parseStmt(SubSeq(ts, 1, n), pos)>>
            \o parseStmtList(SubSeq(ts, n + 2, Len(ts)), pos + n + 1)

\* Positions are 1-based.
ParseFile(text) == parseStmtList(text, 1)

----------------------------------------------------------------------------
(* The analyzer *)

\* nodeFilter of run: only *ast.AssignStmt.
nodeFilter == {"AssignStmt"}

\* The format's arguments in the wrong order.
NewText_swapped(sliceName, eltName) == <<"var", eltName, "[", "]", sliceName>>

\* A replacement that is still a short declaration of an empty literal.
NewText_literal(sliceName, eltName) == <<sliceName, ":=", "[", "]", eltName, "{", "}">>

\* fmt.Sprintf("var %s []%s", sliceName, eltName), as tokens.
NewText(sliceName, eltName) == <<"var", sliceName, "[", "]", eltName>>

\* A report whose message depends on what was analysed before.
report_numbered(n, sliceName, eltName) ==
    [Pos |-> n.Pos,
     Message |-> IF log = <<>> THEN "incorrect empty slice declaration"
                 ELSE "another incorrect empty slice declaration",
     SuggestedFixes |-> <<
        [Message |-> "use var",
         TextEdits |-> <<
            [Pos |-> n.Pos, End |-> n.End, NewText |-> NewText(sliceName, eltName)] >>] >>]

\* The Diagnostic that report hands to pass.Report.
report(n, sliceName, eltName) ==
    [Pos |-> n.Pos,
     Message |-> "incorrect empty slice declaration",
     SuggestedFixes |-> <<
        [Message |-> "use var",
         TextEdits |-> <<
            [Pos |-> n.Pos, End |-> n.End, NewText |-> NewText(sliceName, eltName)] >>] >>]

\* Outcomes of one invocation of the callback.
Return == [reports |-> <<>>, panic |-> FALSE]
Panic == [reports |-> <<>>, panic |-> TRUE]
Reported(d) == [reports |-> <<d>>, panic |-> FALSE]

\* The callback with the two type assertions made before the filters.
callback_assertFirst(n) ==
    LET assignment == n IN
    IF assignment.Lhs[1].kind # "Ident" THEN Panic
    ELSE LET composite == assignment.Rhs[1] IN
    IF composite.kind # "CompositeLit" THEN Return
    ELSE IF ~composite.Elts.isNil THEN Return
    ELSE IF composite.Type.kind # "ArrayType" THEN Return
    ELSE IF composite.Type.Elt.kind # "Ident" THEN Panic
    ELSE Reported(report(n, assignment.Lhs[1].Name, composite.Type.Elt.Name))

\* The callback with checked assertions (ident, ok := ...; if !ok { return }).
callback_skipOnBadShape(n) ==
    LET assignment == n
        composite == assignment.Rhs[1]
    IN
    IF composite.kind # "CompositeLit" THEN Return
    ELSE IF ~composite.Elts.isNil THEN Return
    ELSE IF composite.Type.kind # "ArrayType" THEN Return
    ELSE IF assignment.Lhs[1].kind # "Ident" THEN Return
    ELSE IF composite.Type.Elt.kind # "Ident" THEN Return
    ELSE Reported(report(n, assignment.Lhs[1].Name, composite.Type.Elt.Name))

\* The callback reporting once per value expression of the assignment.
callback_reportPerValue(n) ==
    LET assignment == n
        composite == assignment.Rhs[1]
    IN
    IF composite.kind # "CompositeLit" THEN Return
    ELSE IF ~composite.Elts.isNil THEN Return
    ELSE IF composite.Type.kind # "ArrayType" THEN Return
    ELSE IF assignment.Lhs[1].kind # "Ident" THEN Panic
    ELSE IF composite.Type.Elt.kind # "Ident" THEN Panic
    ELSE [reports |-> [k \in 1..Len(assignment.Rhs) |->
                          report(n, assignment.Lhs[1].Name, composite.Type.Elt.Name)],
          panic |-> FALSE]

\* The callback with a fourth filter: only short variable declarations.
callback_defineOnly(n) ==
    LET assignment == n
        composite == assignment.Rhs[1]
    IN
    IF assignment.Tok # ":=" THEN Return
    ELSE IF composite.kind # "CompositeLit" THEN Return
    ELSE IF ~composite.Elts.isNil THEN Return
    ELSE IF composite.Type.kind # "ArrayType" THEN Return
    ELSE IF assignment.Lhs[1].kind # "Ident" THEN Panic
    ELSE IF composite.Type.Elt.kind # "Ident" THEN Panic
    ELSE Reported(report(n, assignment.Lhs[1].Name, composite.Type.Elt.Name))

\* The function literal passed to ins.Preorder.  An index out of range and
\* a failed unchecked type assertion are run-time panics.
callback(n) ==
    LET assignment == n IN
    IF Len(assignment.Rhs) = 0 THEN Panic
    ELSE LET composite == assignment.Rhs[1] IN
    IF composite.kind # "CompositeLit" THEN Return
    ELSE IF ~composite.Elts.isNil THEN Return
    ELSE LET arrayType == composite.Type IN
    IF arrayType.kind # "ArrayType" THEN Return
    ELSE IF Len(assignment.Lhs) = 0 THEN Panic
    ELSE LET ident == assignment.Lhs[1] IN
    IF ident.kind # "Ident" THEN Panic
    ELSE LET elt == arrayType.Elt IN
    IF elt.kind # "Ident" THEN Panic
    ELSE Reported(report(n, ident.Name, elt.Name))

----------------------------------------------------------------------------
(* The driver's fix mode: every TextEdit of every reported fix replaces    *)
(* the source in [Pos, End) by NewText.                                    *)

AllEdits(ds) ==
    [k \in 1..Len(ds) |-> ds[k].SuggestedFixes[1].TextEdits[1]]

\* Edits are in ascending position; the last is applied first, so that the
\* positions of the others stay valid.
RECURSIVE ApplyEdits(_, _)
ApplyEdits(text, edits) ==
    IF edits = <<>> THEN text
    ELSE LET e == edits[Len(edits)] IN
         ApplyEdits(SubSeq(text, 1, e.Pos - 1) \o e.NewText \o SubSeq(text, e.End, Len(text)),
                    SubSeq(edits, 1, Len(edits) - 1))

----------------------------------------------------------------------------
(* The state machine *)

Init ==
    /\ src \in Files
    /\ nodes = ParseFile(src)
    /\ idx = 1
    /\ diags = <<>>
    /\ pc = "traverse"
    /\ pass = 1
    /\ log = <<>>
    /\ fixedIdx = {}

\* Preorder passes over a node whose type is not in nodeFilter.
PreorderSkip ==
    /\ pc = "traverse"
    /\ idx <= Len(nodes)
    /\ nodes[idx].kind \notin nodeFilter
    /\ idx' = idx + 1
    /\ UNCHANGED <<src, nodes, diags, pc, pass, log, fixedIdx>>

\* Preorder calls the callback on the next *ast.AssignStmt.  A panic leaves
\* the callback, Preorder and run: nothing in run recovers it.
PreorderCallback ==
    /\ pc = "traverse"
    /\ idx <= Len(nodes)
    /\ nodes[idx].kind \in nodeFilter
    /\ LET n == nodes[idx]
           r == callback(n)
       IN /\ diags' = diags \o r.reports
          /\ log' = Append(log, [pass |-> pass, node |-> n,
                                 reports |-> r.reports, panic |-> r.panic])
          /\ pc' = IF r.panic THEN "panicked" ELSE "traverse"
          /\ idx' = IF r.panic THEN idx ELSE idx + 1
    /\ UNCHANGED <<src, nodes, pass, fixedIdx>>

\* Preorder has visited every node: run returns nil, nil.
RunReturn ==
    /\ pc = "traverse"
    /\ idx > Len(nodes)
    /\ pc' = "done"
    /\ UNCHANGED <<src, nodes, idx, diags, pass, log, fixedIdx>>

\* nitme <file> again: a new pass over the same source.
Rerun ==
    /\ pc = "done"
    /\ pass < MaxPasses
    /\ pass' = pass + 1
    /\ idx' = 1
    /\ diags' = <<>>
    /\ pc' = "traverse"
    /\ UNCHANGED <<src, nodes, log, fixedIdx>>

\* nitme -fix <file>: the reported edits are applied, and the result is
\* analysed again.
ApplyFixes ==
    /\ pc = "done"
    /\ pass < MaxPasses
    /\ diags # <<>>
    /\ src' = ApplyEdits(src, AllEdits(diags))
    /\ nodes' = ParseFile(src')
    /\ fixedIdx' = { i \in 1..Len(nodes) : \E k \in 1..Len(diags) : diags[k].Pos = nodes[i].Pos }
    /\ pass' = pass + 1
    /\ idx' = 1
    /\ diags' = <<>>
    /\ pc' = "traverse"
    /\ UNCHANGED log

Next ==
    \/ PreorderSkip
    \/ PreorderCallback
    \/ RunReturn
    \/ Rerun
    \/ ApplyFixes

Spec == Init /\ [][Next]_vars

----------------------------------------------------------------------------
(* Shapes of an assignment node, read off the node itself. *)

\* The three filters of the callback pass.
PassesFilters(n) ==
    /\ n.Rhs[1].kind = "CompositeLit"
    /\ n.Rhs[1].Elts.isNil
    /\ n.Rhs[1].Type.kind = "ArrayType"

\* The filters pass, and a target or element type is not a plain identifier.
ContractViolation(n) ==
    /\ PassesFilters(n)
    /\ (n.Lhs[1].kind # "Ident" \/ n.Rhs[1].Type.Elt.kind # "Ident")

\* The filters pass and both names can be extracted.
Matches(n) ==
    /\ PassesFilters(n)
    /\ n.Lhs[1].kind = "Ident"
    /\ n.Rhs[1].Type.Elt.kind = "Ident"

SingleTargetSingleValue(n) == Len(n.Lhs) = 1 /\ Len(n.Rhs) = 1

\* The one Diagnostic a match is to produce.
ExpectedDiagnostic(n) ==
    [Pos |-> n.Pos,
     Message |-> "incorrect empty slice declaration",
     SuggestedFixes |-> <<
        [Message |-> "use var",
         TextEdits |-> <<
            [Pos |-> n.Pos, End |-> n.End,
             NewText |-> <<"var", n.Lhs[1].Name, "[", "]", n.Rhs[1].Type.Elt.Name>>] >>] >>]

\* The diagnostics the nodes visited so far in the current pass call for.
RECURSIVE ExpectedDiags(_)
ExpectedDiags(entries) ==
    IF entries = <<>> THEN <<>>
    ELSE LET e == Head(entries) IN
         (IF e.pass = pass /\ Matches(e.node) THEN <<ExpectedDiagnostic(e.node)>> ELSE <<>>)
            \o ExpectedDiags(Tail(entries))

----------------------------------------------------------------------------
(* Claims *)

\* C1: an assignment with exactly one target, a plain identifier N, and
\* exactly one value, a composite literal with nil Elts and an array type
\* whose element type is a plain identifier T, gets exactly one Diagnostic:
\* at the statement's start, with the message "incorrect empty slice
\* declaration" and one SuggestedFix "use var" holding one TextEdit over
\* [statement start, statement end) with the text "var N []T".
C1_OneExactDiagnostic ==
    \A k \in DOMAIN log :
        LET n == log[k].node IN
        (SingleTargetSingleValue(n) /\ Matches(n)) =>
            /\ ~log[k].panic
            /\ log[k].reports = <<ExpectedDiagnostic(n)>>
            /\ Len(log[k].reports[1].SuggestedFixes) = 1
            /\ Len(log[k].reports[1].SuggestedFixes[1].TextEdits) = 1

C1_Witness ==
    \E k \in DOMAIN log :
        /\ SingleTargetSingleValue(log[k].node)
        /\ Matches(log[k].node)
        /\ log[k].node.Lhs[1].Name # log[k].node.Rhs[1].Type.Elt.Name
        /\ Len(log[k].reports) = 1

\* C2: an assignment that fails one of the three filters gets no diagnostic
\* and no panic, whatever its target and element type look like.
C2_FilteredOutIsSilent ==
    \A k \in DOMAIN log :
        ~PassesFilters(log[k].node) =>
            /\ log[k].reports = <<>>
            /\ ~log[k].panic
            /\ (log[k].pass = pass =>
                    \A j \in DOMAIN diags : diags[j].Pos # log[k].node.Pos)

C2_Witness ==
    \E k \in DOMAIN log :
        /\ ~PassesFilters(log[k].node)
        /\ log[k].node.Lhs[1].kind # "Ident"
        /\ log[k].reports = <<>>
        /\ pc = "done"

\* C3 (as claimed): an assignment with other than exactly one target and one
\* value is never matched: no diagnostic and no panic.
C3_MultiAssignNeverMatched ==
    \A k \in DOMAIN log :
        ~SingleTargetSingleValue(log[k].node) =>
            log[k].reports = <<>> /\ ~log[k].panic

\* C4 (as claimed): an empty composite literal of an array type with a
\* length ([3]int{}) is rejected by the third filter: no diagnostic.
C4_BoundedArrayRejected ==
    \A k \in DOMAIN log :
        LET n == log[k].node IN
        (PassesFilters(n) /\ n.Rhs[1].Type.Len # Nil) => log[k].reports = <<>>

\* C5 (as claimed): a contract violation on one node does not end the
\* traversal: once the pass is over, every other assignment of the file has
\* been handed to the callback, and every matching one has its diagnostic.
C5_TraversalSurvivesViolation ==
    pc # "traverse" =>
        \A i \in DOMAIN nodes :
            (nodes[i].kind \in nodeFilter /\ ~ContractViolation(nodes[i])) =>
                /\ \E k \in DOMAIN log : log[k].pass = pass /\ log[k].node = nodes[i]
                /\ Matches(nodes[i]) =>
                       \E j \in DOMAIN diags : diags[j].Pos = nodes[i].Pos

\* C6: when the filters pass but the first target or the element type is
\* not a plain identifier, the callback panics and nothing is reported for
\* that node.
C6_ViolationPanicsWithoutReport ==
    \A k \in DOMAIN log :
        ContractViolation(log[k].node) =>
            /\ log[k].panic
            /\ log[k].reports = <<>>
            /\ (log[k].pass = pass =>
                    \A j \in DOMAIN diags : diags[j].Pos # log[k].node.Pos)

C6_Witness ==
    \E k \in DOMAIN log :
        /\ ContractViolation(log[k].node)
        /\ log[k].node.Lhs[1].kind = "Ident"
        /\ log[k].panic
        /\ pc = "panicked"

\* C7: after the reported edits are applied and the file is parsed again,
\* a statement that was rewritten is still there and is not matched: the
\* analysis of the fixed source reports nothing at it.
C7_FixDoesNotRetrigger ==
    \A i \in fixedIdx :
        /\ i \in DOMAIN nodes
        /\ \A j \in DOMAIN diags : diags[j].Pos # nodes[i].Pos
        /\ \A k \in DOMAIN log :
              (log[k].pass = pass /\ log[k].node = nodes[i]) =>
                  log[k].reports = <<>> /\ ~log[k].panic

C7_Witness ==
    /\ fixedIdx # {}
    /\ pass > 1
    /\ pc = "done"

C9_SinkIsMatchingSubsequence ==
    /\ [](diags = ExpectedDiags(log))
    /\ [][pass' = pass =>
            \/ diags' = diags
            \/ /\ Len(diags') = Len(diags) + 1
               /\ SubSeq(diags', 1, Len(diags)) = diags]_vars

C9_Witness ==
    /\ diags # <<>>
    /\ \E j, k \in DOMAIN log :
          /\ j < k
          /\ log[j].pass = pass /\ log[j].reports = <<>>
          /\ log[k].pass = pass /\ log[k].reports # <<>>

\* C10: two assignments that differ in the assignment operator only get the
\* same verdict and, when reported, the same message and replacement text.
C10_OperatorIgnored ==
    \A j, k \in DOMAIN log :
        LET a == log[j].node
            b == log[k].node
        IN (a.Lhs = b.Lhs /\ a.Rhs = b.Rhs /\ a.Tok # b.Tok) =>
              /\ log[j].panic = log[k].panic
              /\ Len(log[j].reports) = Len(log[k].reports)
              /\ \A i \in DOMAIN log[j].reports :
                    /\ log[j].reports[i].Message = log[k].reports[i].Message
                    /\ log[j].reports[i].SuggestedFixes[1].TextEdits[1].NewText
                         = log[k].reports[i].SuggestedFixes[1].TextEdits[1].NewText

C10_Witness ==
    \E j, k \in DOMAIN log :
        /\ log[j].node.Tok = ":="
        /\ log[k].node.Tok = "="
        /\ log[j].node.Lhs = log[k].node.Lhs
        /\ log[j].node.Rhs = log[k].node.Rhs
        /\ log[j].reports # <<>>
        /\ log[k].reports # <<>>

====
